---- MODULE Spec2Model ----
(***************************************************************************)
(* The counter demo of react-patterns-logic-reuse: the App selector, the   *)
(* four logic adapters (hook, render-prop, component injection, component  *)
(* injection with prop-getter) and the Counter presentation component.     *)
(*                                                                         *)
(* One adapter is mounted at a time.  React keeps the adapter's useState   *)
(* cell (currentValue); a render pass binds it to the const `value`,       *)
(* creates a fresh pair of closures countUp/countDown and builds the view  *)
(* (dom).  An interaction invokes a closure of the view, which applies its *)
(* functional updater to the cell and schedules a re-render.               *)
(***************************************************************************)
EXTENDS Integers, Sequences, FiniteSets, TLC

\* ---------------------------------------------------------------- bounds
MaxCalls == 3      \* callback invocations per mounted adapter
MaxMounts == 3     \* adapters mounted in one run (the first one included)
MaxBatch == 2      \* callback invocations of one handler before the flush

\* ------------------------------------------------------ program constants
RenderMethods == {"comp-injection", "comp-injection-on-each", "render-prop", "hook"}

InitialRenderMethod == "render-prop"

InitialValue == 0

Indices == <<0, 1, 2, 3>>

VARIABLES
  renderMethod,   \* App's useState cell: the selected mode
  mountId,        \* identity of the mounted adapter instance
  currentValue,   \* the mounted adapter's useState cell
  value,          \* the const `value` bound by the latest render pass
  renderId,       \* number of render passes of the mounted adapter
  dirty,          \* an update is queued and the re-render not yet flushed
  snapshots,      \* the {value, countUp, countDown} objects built in the latest pass
  dom,            \* the committed view: one Counter output per instance
  trace,          \* interactions since mount: [button, call]
  vals,           \* the cell's value at mount and after each call
  observed,       \* the const `value` of each render pass since mount
  shownLog,       \* the texts displayed by each render pass since mount
  batch,          \* calls made since the latest render pass
  flushed,        \* the calls the latest render pass flushed
  left            \* per mode: <<the cell's value>> when its adapter was last unmounted, << >> if never

vars == <<renderMethod, mountId, currentValue, value, renderId, dirty, snapshots,
          dom, trace, vals, observed, shownLog, batch, flushed, left>>

\* ------------------------------------------------------- pure functions

\* Variant: the closures are memoized once per adapter instance.
CallbackMemoized(kind, owner, rid) ==
  [kind |-> kind, owner |-> owner, render |-> 0]

\* A closure created by a render pass: which mutator, of which adapter
\* instance, created by which pass.
Callback(kind, owner, rid) ==
  [kind |-> kind, owner |-> owner, render |-> rid]

\* The object {value, countUp, countDown} a render pass builds.
CounterProps(v, owner, rid) ==
  [value |-> v,
   countUp |-> Callback("up", owner, rid),
   countDown |-> Callback("down", owner, rid)]

\* The presentation component: the text and the two buttons' handlers.
Counter(props) ==
  [text |-> props.value, plus |-> props.countUp, minus |-> props.countDown]

\* Variant: the hook keeps returning the value of its first pass.
useCounterLogicFirstValue(v, owner, rid) == CounterProps(InitialValue, owner, rid)

\* hooks: useCounterLogic returns { value, countUp, countDown }.
useCounterLogic(v, owner, rid) == CounterProps(v, owner, rid)

CounterWithHook(v, owner, rid) ==
  LET h == useCounterLogic(v, owner, rid)
  IN  << Counter([value |-> h.value, countUp |-> h.countUp, countDown |-> h.countDown]) >>

\* index.tsx: renderCounter={(props) => <Counter {...props} />}
renderCounter(props) == Counter(props)

RenderProp(v, owner, rid) ==
  << renderCounter(CounterProps(v, owner, rid)) >>

\* Variant: the two callbacks are handed over crosswise.
ComponentInjectionCrossed(v, owner, rid) ==
  << Counter([value |-> v,
              countDown |-> Callback("up", owner, rid),
              countUp |-> Callback("down", owner, rid)]) >>

ComponentInjection(v, owner, rid) ==
  << Counter([value |-> v,
              countDown |-> Callback("down", owner, rid),
              countUp |-> Callback("up", owner, rid)]) >>

\* Variant: the transform adds the index instead of multiplying by it.
getCounterPropsAdd(index, defaultProps) ==
  [defaultProps EXCEPT !.value = defaultProps.value + index]

\* index.tsx: getCounterProps={(index, defaultProps) => ({...defaultProps, value: defaultProps.value * index})}
getCounterProps(index, defaultProps) ==
  [defaultProps EXCEPT !.value = defaultProps.value * index]

\* Variant: the adapter scales the default value by the index itself.
PropGetterDefaultsScaled(index, v, owner, rid) == CounterProps(v * index, owner, rid)

\* The default props the prop-getter adapter builds for one index.
PropGetterDefaults(index, v, owner, rid) == CounterProps(v, owner, rid)

ComponentInjectionWithPropGetter(v, owner, rid) ==
  [i \in 1..Len(Indices) |->
     Counter(getCounterProps(Indices[i], PropGetterDefaults(Indices[i], v, owner, rid)))]

\* index.tsx RenderMethod: which adapter a mode mounts, and its output.
RenderMethod(m, v, owner, rid) ==
  CASE m = "comp-injection" -> ComponentInjection(v, owner, rid)
    [] m = "comp-injection-on-each" -> ComponentInjectionWithPropGetter(v, owner, rid)
    [] m = "render-prop" -> RenderProp(v, owner, rid)
    [] m = "hook" -> CounterWithHook(v, owner, rid)
    [] OTHER -> << >>

\* The snapshot objects the adapter of mode m builds in one pass.
Snapshots(m, v, owner, rid) ==
  IF m = "comp-injection-on-each"
    THEN [i \in 1..Len(Indices) |-> PropGetterDefaults(Indices[i], v, owner, rid)]
    ELSE << CounterProps(v, owner, rid) >>

Texts(view) == [i \in 1..Len(view) |-> view[i].text]

\* Variant: the cell of a mode is restored from its previous mount.
MountValueRestored(m) == IF left[m] = << >> THEN InitialValue ELSE left[m][1]

\* useState<number>(0): the cell of a freshly mounted adapter.
MountValue(m) == InitialValue

\* Variant: setValue(value + 1), the value captured by the render pass.
countUpCaptured == value + 1

\* Variant: the step is 2.
countUpTwice == currentValue + 2

\* setValue((currentValue) => currentValue + 1)
countUp == currentValue + 1

\* Variant: the decrement stops at 0.
countDownFloored == IF currentValue > 0 THEN currentValue - 1 ELSE 0

\* Variant: the decrement repeats the increment's updater.
countDownAdds == currentValue + 1

\* setValue((currentValue) => currentValue - 1)
countDown == currentValue - 1

\* The cell after invoking a closure handed out by a render pass.
Invoke(cb) == IF cb.kind = "up" THEN countUp ELSE countDown

Handler(i, button) == IF button = "+" THEN dom[i].plus ELSE dom[i].minus

\* ------------------------------------------------------------- the state

Init ==
  /\ left = [m \in RenderMethods |-> << >>]
  /\ renderMethod = InitialRenderMethod
  /\ mountId = 1
  /\ currentValue = MountValue(InitialRenderMethod)
  /\ value = MountValue(InitialRenderMethod)
  /\ renderId = 1
  /\ dirty = FALSE
  /\ snapshots = Snapshots(InitialRenderMethod, MountValue(InitialRenderMethod), 1, 1)
  /\ dom = RenderMethod(InitialRenderMethod, MountValue(InitialRenderMethod), 1, 1)
  /\ trace = << >>
  /\ vals = << MountValue(InitialRenderMethod) >>
  /\ observed = << MountValue(InitialRenderMethod) >>
  /\ shownLog = << Texts(RenderMethod(InitialRenderMethod, MountValue(InitialRenderMethod), 1, 1)) >>
  /\ batch = << >>
  /\ flushed = << >>

\* What one callback invocation does to the state.
Call(i, button) ==
  LET cb == Handler(i, button)
  IN  /\ currentValue' = Invoke(cb)
      /\ trace' = Append(trace, [button |-> button, call |-> cb.kind])
      /\ vals' = Append(vals, Invoke(cb))
      /\ batch' = Append(batch, cb.kind)
      /\ dirty' = TRUE
      /\ UNCHANGED <<renderMethod, mountId, value, renderId, snapshots, dom,
                     observed, shownLog, flushed, left>>

\* The operator activates a button of instance i of the committed view.
Click ==
  \E i \in 1..Len(dom), button \in {"+", "-"} :
    /\ ~dirty
    /\ Len(trace) < MaxCalls
    /\ Call(i, button)

\* A consumer's handler invokes a further callback of the same render pass
\* before React flushes the re-render.
BatchedCall ==
  \E i \in 1..Len(dom), button \in {"+", "-"} :
    /\ dirty
    /\ Len(batch) < MaxBatch
    /\ Len(trace) < MaxCalls
    /\ Call(i, button)

\* React re-runs the adapter's component function and commits its output.
Render ==
  /\ dirty
  /\ renderId' = renderId + 1
  /\ value' = currentValue
  /\ snapshots' = Snapshots(renderMethod, currentValue, mountId, renderId + 1)
  /\ dom' = RenderMethod(renderMethod, currentValue, mountId, renderId + 1)
  /\ observed' = Append(observed, currentValue)
  /\ shownLog' = Append(shownLog, Texts(RenderMethod(renderMethod, currentValue, mountId, renderId + 1)))
  /\ flushed' = batch
  /\ batch' = << >>
  /\ dirty' = FALSE
  /\ UNCHANGED <<renderMethod, mountId, currentValue, trace, vals, left>>

\* App: a selector button's onClick, setRenderMethod(m), and the re-render
\* that unmounts the previous adapter and mounts the one of mode m.
\* (Selecting the current mode leaves App's state equal: React bails out.)
Select ==
  \E m \in RenderMethods :
    /\ ~dirty
    /\ m # renderMethod
    /\ mountId < MaxMounts
    /\ renderMethod' = m
    /\ mountId' = mountId + 1
    /\ currentValue' = MountValue(m)
    /\ value' = MountValue(m)
    /\ renderId' = 1
    /\ dirty' = FALSE
    /\ snapshots' = Snapshots(m, MountValue(m), mountId + 1, 1)
    /\ dom' = RenderMethod(m, MountValue(m), mountId + 1, 1)
    /\ trace' = << >>
    /\ vals' = << MountValue(m) >>
    /\ observed' = << MountValue(m) >>
    /\ shownLog' = << Texts(RenderMethod(m, MountValue(m), mountId + 1, 1)) >>
    /\ batch' = << >>
    /\ flushed' = << >>
    /\ left' = [left EXCEPT ![renderMethod] = << currentValue >>]

\* The demo: React flushes the re-render at the end of every click.
Next == Click \/ Render \/ Select

Spec == Init /\ [][Next]_vars

\* The scheduler always flushes a queued re-render.
FairSpec == Spec /\ WF_vars(Render)

\* Any consumer: a handler may invoke several callbacks before the flush.
NextBatched == Click \/ BatchedCall \/ Render \/ Select

SpecBatched == Init /\ [][NextBatched]_vars

\* ---------------------------------------------------- helpers of the claims

CountCalls(kind) == Cardinality({i \in 1..Len(trace) : trace[i].call = kind})

CountButtons(button) == Cardinality({i \in 1..Len(trace) : trace[i].button = button})

\* The signed sum of the user's interactions since mount.
ButtonSum == CountButtons("+") - CountButtons("-")

RECURSIVE SignedSum(_)
SignedSum(calls) ==
  IF calls = << >> THEN 0
  ELSE (IF Head(calls) = "up" THEN 1 ELSE -1) + SignedSum(Tail(calls))

Last(s) == s[Len(s)]

SingleInstance == {"comp-injection", "render-prop", "hook"}

\* ------------------------------------------------------------------ claims

\* C1: after any sequence of countUp and countDown calls on a freshly mounted
\* adapter, the counter's value is the number of countUp calls minus the
\* number of countDown calls, counted from the initial 0, and is not clamped.
C1_ValueIsSignedSum ==
  currentValue = InitialValue + CountCalls("up") - CountCalls("down")

C1_Witness ==
  /\ CountCalls("down") = 2
  /\ CountCalls("up") = 1
  /\ currentValue = -1

\* C2: in every step the value of a mounted adapter stays the same, or grows by
\* exactly 1 in a countUp call, or shrinks by exactly 1 in a countDown call;
\* a render pass leaves it alone.
C2_OnlyUnitSteps ==
  [][ mountId' = mountId =>
        \/ /\ currentValue' = currentValue + 1
           /\ Len(trace') = Len(trace) + 1
           /\ Last(trace').call = "up"
        \/ /\ currentValue' = currentValue - 1
           /\ Len(trace') = Len(trace) + 1
           /\ Last(trace').call = "down"
        \/ /\ currentValue' = currentValue
           /\ trace' = trace ]_vars

C2_Witness ==
  /\ renderMethod = "comp-injection-on-each"
  /\ renderId = 3
  /\ ~dirty
  /\ currentValue = 2

\* C3: an increment followed by a decrement, or a decrement followed by an
\* increment, brings the value back to what it was before the pair, at every
\* value, 0 included.
C3_InverseMutators ==
  \A j \in 1..(Len(trace) - 1) :
    trace[j].call # trace[j + 1].call => vals[j + 2] = vals[j]

C3_Witness ==
  /\ Len(trace) = 3
  /\ trace[1].call = "down" /\ trace[2].call = "up" /\ trace[3].call = "down"
  /\ vals = << 0, -1, 0, -1 >>

\* C4 as stated: after each step every value the mounted adapter displays
\* equals every value any of the four adapters displays after the same
\* sequence of interactions.
C4_AllFourShowSameValue ==
  ~dirty =>
    \A m \in RenderMethods :
      LET other == Texts(RenderMethod(m, InitialValue + ButtonSum, mountId, renderId))
      IN  \A i \in 1..Len(dom), j \in 1..Len(other) : dom[i].text = other[j]

\* C4 amended: after each step the hook, render-callback and component
\* injection adapters display the one value that is the signed sum of the
\* interactions; the prop-getter adapter as wired in the demo displays that
\* value times the index on its instance of that index (instance 1 shows it).
C4_SingleInstanceShowSameValue ==
  ~dirty =>
    /\ renderMethod \in SingleInstance =>
         Texts(dom) = << InitialValue + ButtonSum >>
    /\ renderMethod = "comp-injection-on-each" =>
         /\ Len(dom) = Len(Indices)
         /\ \A i \in 1..Len(dom) : dom[i].text = (InitialValue + ButtonSum) * Indices[i]

C4_Witness ==
  /\ ~dirty
  /\ renderMethod = "comp-injection"
  /\ Len(trace) = 3
  /\ ButtonSum = -1
  /\ Texts(dom) = << -1 >>

\* C5: the prop-getter adapter with the demo's transform renders exactly four
\* instances, instance i displays value * i, and every instance's two
\* callbacks are the defaults, bound to the shared state of the adapter.
C5_PropGetterShowsValueTimesIndex ==
  renderMethod = "comp-injection-on-each" =>
    /\ Len(dom) = 4
    /\ \A i \in 1..Len(dom) :
         /\ dom[i].text = value * (i - 1)
         /\ ~dirty => dom[i].text = currentValue * (i - 1)
         /\ dom[i].plus = snapshots[i].countUp
         /\ dom[i].minus = snapshots[i].countDown
         /\ dom[i].plus.kind = "up" /\ dom[i].plus.owner = mountId
         /\ dom[i].minus.kind = "down" /\ dom[i].minus.owner = mountId

C5_Witness ==
  /\ renderMethod = "comp-injection-on-each"
  /\ ~dirty
  /\ currentValue = 2
  /\ Texts(dom) = << 0, 2, 4, 6 >>

\* C6: in one render pass of the prop-getter adapter the default props handed
\* to getCounterProps for the indices 0, 1, 2, 3 all carry the same value, the
\* state value at the start of the pass.
C6_DefaultsShareOneValue ==
  renderMethod = "comp-injection-on-each" =>
    /\ Len(snapshots) = 4
    /\ \A i \in 1..Len(snapshots) :
         /\ snapshots[i].value = Last(observed)
         /\ snapshots[i].value = snapshots[1].value
         /\ ~dirty => snapshots[i].value = Last(vals)

C6_Witness ==
  /\ renderMethod = "comp-injection-on-each"
  /\ renderId = 2
  /\ ~dirty
  /\ \A i \in 1..4 : snapshots[i].value = -1

C8_ExclusiveOwnership ==
  /\ [][ renderMethod' # renderMethod =>
           /\ mountId' # mountId
           /\ currentValue' = 0
           /\ trace' = << >>
           /\ \A i \in 1..Len(dom') : dom'[i].text = 0
           /\ left'[renderMethod] = << currentValue >> ]_vars
  /\ [](\A i \in 1..Len(dom) :
          dom[i].plus.owner = mountId /\ dom[i].minus.owner = mountId)
  /\ [](trace = << >> => currentValue = 0)

C8_Witness ==
  /\ left[renderMethod] # << >>
  /\ left[renderMethod][1] = 2
  /\ trace = << >>
  /\ currentValue = 0

\* C9 as stated: across all renders of one mounted adapter instance the
\* snapshot carries the same countUp callback and the same countDown callback.
C9_StableCallbackIdentity ==
  [][ mountId' = mountId =>
        \A i \in 1..Len(snapshots) :
          /\ snapshots'[i].countUp = snapshots[i].countUp
          /\ snapshots'[i].countDown = snapshots[i].countDown ]_vars

\* C9 amended: the callbacks of the snapshot are bound to the owning adapter's
\* state, but they are not stable identities: every render pass of a mounted
\* adapter instance creates a new countUp and a new countDown closure.
C9_FreshCallbacksBoundToOwner ==
  /\ [][ (mountId' = mountId /\ renderId' # renderId) =>
           \A i \in 1..Len(snapshots) :
             /\ snapshots'[i].countUp # snapshots[i].countUp
             /\ snapshots'[i].countDown # snapshots[i].countDown ]_vars
  /\ [](\A i \in 1..Len(snapshots) :
          /\ snapshots[i].countUp.owner = mountId
          /\ snapshots[i].countUp.kind = "up"
          /\ snapshots[i].countDown.owner = mountId
          /\ snapshots[i].countDown.kind = "down")

C9_Witness ==
  /\ renderMethod = "render-prop"
  /\ renderId = 3
  /\ snapshots[1].countUp.render = 3
  /\ Len(trace) = 2

\* C10: callbacks of one render pass invoked several times before the next
\* pass each apply to the then-current state value, so the next pass observes
\* and shows the prior value plus the signed sum of all the calls.
C10_NoLostUpdate ==
  /\ currentValue = value + SignedSum(batch)
  /\ (~dirty /\ Len(observed) >= 2) =>
       /\ Last(observed) = observed[Len(observed) - 1] + SignedSum(flushed)
       /\ renderMethod \in SingleInstance => dom[1].text = Last(observed)

C10_Witness ==
  /\ ~dirty
  /\ flushed = << "up", "up" >>
  /\ Len(observed) = 2
  /\ Last(observed) = 2
  /\ renderMethod = "render-prop"
  /\ dom[1].text = 2

====
